---- MODULE Spec2Model ----
(***************************************************************************)
(* Model of mnikita/task-queue: the consumer loop (pkg/consumer), the      *)
(* worker pool (pkg/worker), the connector that links them, and the        *)
(* start/stop sequence of Cli.Start.                                       *)
(*                                                                         *)
(* pkg/connector and pkg/common are not part of the available sources;     *)
(* HandlePayload, the outcome relay, the task registry and the task        *)
(* handler are modelled from the specification text.                       *)
(*                                                                         *)
(* A step that only computes is merged with the channel operation that     *)
(* follows it; a routine gets a position of its own wherever it can block. *)
(***************************************************************************)
EXTENDS Naturals, Integers, Sequences, FiniteSets

\* ---------------------------------------------------------------- bounds
MaxConcurrency == 2     \* largest Configuration.Concurrency explored
MaxJobs == 3            \* number of jobs the broker hands out in one run
MaxWork == 4            \* routines of the pool plus jobs handed out in one run
MaxBeats == 1           \* Heartbeat/Progress notifications one handler sends
MaxReserveCount == 2    \* Reserve calls counted between two acknowledgments
MaxFactories == 2       \* distinct factories passed to RegisterTask
MaxRegistrations == 3   \* RegisterTask calls in one run of the registry
MaxResolves == 2        \* handlers constructed in one run of the registry

\* ------------------------------------------------------ program constants
BuryPriority == 1       \* consumer.NewConfiguration
EventChannelCap == 1    \* make(chan *common.TaskProcessEvent, 1)

\* ------------------------------------------------------------ data model
Routines == 1..MaxConcurrency
JobIds == 1..MaxJobs

NoTask == [Id |-> 0, Name |-> ""]
NoEvent == [EventId |-> "none", Task |-> NoTask]

\* Reserve bodies: the nil slice, the zero-length slice, a malformed
\* document, two task documents
BodyNil == "<nil>"
BodyEmpty == ""
BodyBad == "{"
BodyEcho == "{\"Name\":\"echo\"}"
BodyMissing == "{\"Name\":\"missing\"}"
Bodies == {BodyNil, BodyEmpty, BodyBad, BodyEcho, BodyMissing}

\* json.Unmarshal(body, task): the Name carried by the document, or an error
Unmarshal(body) ==
    CASE body = BodyEcho -> [err |-> FALSE, Name |-> "echo"]
      [] body = BodyMissing -> [err |-> FALSE, Name |-> "missing"]
      [] OTHER -> [err |-> TRUE, Name |-> ""]

\* names registered with common.RegisterTask before the program starts
registeredTasks == {"echo"}

\* task names and factories the registry is exercised with; factory 0 stands
\* for no entry, handler 0 for the nil handler
TaskNames == {"echo", "missing"}
Factories == 1..MaxFactories
NoHandler == [factory |-> 0, instance |-> 0]
NoResolve == [name |-> "", err |-> "", handler |-> NoHandler]

\* what is known of a job: the body Reserve returned, the error handlePayload
\* logged, and what the pool did with its task; signals lists, in order, the
\* lifecycle signals, the call of the handler and the terminal event
NewJob ==
    [body |-> "unreserved", logged |-> "", handed |-> FALSE,
     accepted |-> FALSE, dequeued |-> 0, pre |-> FALSE, invoked |-> 0,
     post |-> FALSE, result |-> "none", signals |-> <<>>,
     evSuccess |-> 0, evError |-> 0, evHeartbeat |-> 0, evProgress |-> 0]

\* the error text handleConsume compares with, and the outcome of an
\* iteration whose Reserve returned no error
ErrTimeout == "timeout"
NoOutcome == [err |-> "", OnReserveTimeout |-> FALSE]

\* the timeout signal emitted for every failure of Reserve
ReserveErrorAlwaysSignals(err) == [err |-> err, OnReserveTimeout |-> err # ""]

\* what handleConsume does with the error of Reserve: the error, and whether
\* OnReserveTimeout was called for it (any other error is only logged)
ReserveError(err) == [err |-> err, OnReserveTimeout |-> err = ErrTimeout]

\* broker calls received for one job id; pri: the priorities of its Bury calls
NoCalls == [Delete |-> 0, Bury |-> 0, Touch |-> 0, Release |-> 0, pri |-> {}]

VARIABLES
    config,              \* Concurrency, consumer handler, payload handler
    registry,            \* the registry map: task name to factory
    registrations,       \* the RegisterTask calls made, in order
    resolved,            \* what the last GetRegisteredTaskHandler returned
    created,             \* handlers constructed by factories so far
    mpc,                 \* position of Cli.Start
    cpc,                 \* position of Consumer.handleConsume
    ctask,               \* task inside Connector.HandlePayload
    reserved,            \* number of jobs Reserve has returned
    reserveOutcome,      \* error of this iteration's Reserve, signal emitted
    reservesSinceAck,    \* Reserve calls since the last broker acknowledgment
    job,                 \* per job id: what happened to it
    taskQueue,           \* Worker.taskQueue
    taskQueueClosed,     \* close(w.taskQueue) done
    taskQueueQuit,       \* tokens in Worker.taskQueueQuit
    taskQueueCounter,    \* Worker.taskQueueCounter
    rpc,                 \* position of each Worker.handle routine
    rid,                 \* thread id of each routine
    rtask,               \* task a routine is handling
    rev,                 \* outcome event a routine is blocked writing
    spc,                 \* position of the StartWorker supervisor
    waitErr,             \* WaitTimeout returned the timeout error
    taskEventChannel,    \* Consumer.taskEventChannel
    taskEventClosed,     \* close(con.taskEventChannel) done
    calls,               \* per job id: broker calls received
    brokerClosed,        \* number of Close calls
    closeErr,            \* StopConsumer holds an error returned by Close
    panicked,            \* the unrecovered panic that ended the process
    threadHeartbeat,     \* thread id the last step gave OnThreadHeartbeat
    ackErr               \* the broker call of the last step returned an error

registryVars == <<registry, registrations, resolved>>

vars == <<config, registryVars, mpc, cpc, ctask, reserved, reserveOutcome,
          reservesSinceAck, job, taskQueue, taskQueueClosed, taskQueueQuit,
          taskQueueCounter, created, rpc, rid, rtask, rev, spc, waitErr,
          taskEventChannel, taskEventClosed, calls, brokerClosed, closeErr,
          panicked, threadHeartbeat,
          ackErr>>

\* everything but config and the two histories job and calls
consumerVars == <<cpc, ctask, reserved, reserveOutcome, reservesSinceAck>>
queueVars == <<taskQueue, taskQueueClosed, taskQueueQuit>>
routineVars == <<taskQueueCounter, created, rpc, rid, rtask, rev>>
supervisorVars == <<spc, waitErr>>
eventVars == <<taskEventChannel, taskEventClosed>>

Active == 1..config.Concurrency

\* common.RegisterTask with the first registration kept
RegisterTaskKeepsFirst(name, factory) ==
    IF registry[name] # 0 THEN registry
    ELSE [registry EXCEPT ![name] = factory]

\* common.RegisterTask(name, factory): the map entry of name is set, so a
\* name registered before gets the new factory
RegisterTask(name, factory) == [registry EXCEPT ![name] = factory]

\* common.GetRegisteredTasks: the keys of the map, in some order
GetRegisteredTasks ==
    LET keys == {n \in DOMAIN registry : registry[n] # 0} IN
    CHOOSE list \in [1..Cardinality(keys) -> keys] :
        \A i, j \in DOMAIN list : list[i] = list[j] => i = j

\* common.GetRegisteredTaskHandler handing out one shared handler per name
GetRegisteredTaskHandlerShared(task) ==
    IF task.Name \in DOMAIN registry /\ registry[task.Name] # 0
      THEN [err |-> "", created |-> IF created = 0 THEN 1 ELSE created,
            handler |-> [factory |-> registry[task.Name], instance |-> 1]]
      ELSE [err |-> "UnknownTaskType", created |-> created,
            handler |-> NoHandler]

\* common.GetRegisteredTaskHandler(task): the factory stored under task.Name
\* is invoked once and its new handler returned; a name without an entry
\* gives the unknown-task-type error, no handler, and runs no factory.
\* created is the number of handlers constructed once the call returns
GetRegisteredTaskHandler(task) ==
    IF task.Name \in DOMAIN registry /\ registry[task.Name] # 0
      THEN [err |-> "", created |-> created + 1,
            handler |-> [factory |-> registry[task.Name],
                         instance |-> created + 1]]
      ELSE [err |-> "UnknownTaskType", created |-> created,
            handler |-> NoHandler]

\* the state every run starts in, the registry apart
ProgramInit ==

    /\ config \in [Concurrency : 1..MaxConcurrency,
                   handler : BOOLEAN, taskPayloadHandler : BOOLEAN]
    /\ mpc = "start"
    /\ cpc = "idle"
    /\ ctask = NoTask
    /\ reserved = 0
    /\ reserveOutcome = NoOutcome
    /\ reservesSinceAck = 0
    /\ job = [i \in JobIds |-> NewJob]
    /\ taskQueue = <<>>
    /\ taskQueueClosed = FALSE
    /\ taskQueueQuit = 0
    /\ taskQueueCounter = 0
    /\ rpc = [r \in Routines |-> "none"]
    /\ rid = [r \in Routines |-> 0]
    /\ rtask = [r \in Routines |-> NoTask]
    /\ rev = [r \in Routines |-> NoEvent]
    /\ spc = "none"
    /\ waitErr = FALSE
    /\ taskEventChannel = <<>>
    /\ taskEventClosed = FALSE
    /\ calls = [i \in JobIds |-> NoCalls]
    /\ brokerClosed = 0
    /\ closeErr = FALSE
    /\ panicked = ""
    /\ threadHeartbeat = 0
    /\ ackErr = FALSE
    /\ created = 0
    /\ resolved = NoResolve

\* the program starts with the registrations its init functions made
Init ==
    /\ ProgramInit
    /\ registry = [n \in TaskNames |-> IF n \in registeredTasks THEN 1 ELSE 0]
    /\ registrations = <<[name |-> "echo", factory |-> 1]>>

\* the registry on its own starts empty
RegistryInit ==
    /\ ProgramInit
    /\ registry = [n \in TaskNames |-> 0]
    /\ registrations = <<>>

\* an unrecovered panic: the process and all its goroutines are gone; what
\* the broker received (calls) and what happened to the jobs stay as they are
Panic(reason) ==
    /\ panicked' = reason
    /\ mpc' = "crashed"
    /\ cpc' = "crashed"
    /\ ctask' = NoTask
    /\ taskQueue' = <<>>
    /\ taskQueueQuit' = 0
    /\ rpc' = [r \in Routines |-> "crashed"]
    /\ rtask' = [r \in Routines |-> NoTask]
    /\ rev' = [r \in Routines |-> NoEvent]
    /\ spc' = "crashed"
    /\ taskEventChannel' = <<>>
    /\ reserveOutcome' = NoOutcome
    /\ UNCHANGED <<config, registryVars, reserved, reservesSinceAck,
                   taskQueueClosed, taskQueueCounter, created, rid, waitErr,
                   calls, brokerClosed, closeErr>>
    /\ threadHeartbeat' = 0
    /\ ackErr' = FALSE

\* =================================================================== Cli
\* StartWorker spawning a routine for every slot, whatever Concurrency is
StartWorkerSpawnsAll ==
    /\ mpc = "start"
    /\ mpc' = "startConsumer"
    /\ rpc' = [r \in Routines |-> "spawned"]
    /\ spc' = "waitQuit"
    /\ UNCHANGED <<config, registryVars, consumerVars, job, queueVars,
                   taskQueueCounter, created, rid, rtask, rev, waitErr,
                   eventVars, calls, brokerClosed, closeErr, panicked>>
    /\ threadHeartbeat' = 0
    /\ ackErr' = FALSE

\* w.StartWorker(): spawn Concurrency routines and the supervisor
StartWorker ==
    /\ mpc = "start"
    /\ mpc' = "startConsumer"
    /\ rpc' = [r \in Routines |-> IF r \in Active THEN "spawned" ELSE "none"]
    /\ spc' = "waitQuit"
    /\ UNCHANGED <<config, registryVars, consumerVars, job, queueVars,
                   taskQueueCounter, created, rid, rtask, rev, waitErr,
                   eventVars, calls, brokerClosed, closeErr, panicked>>
    /\ threadHeartbeat' = 0
    /\ ackErr' = FALSE

\* StartConsumer whose error makes Start stop the pool before it returns:
\* the supervisor is woken and the task queue is closed
StartConsumerErrorStopsWorker ==
    /\ mpc = "startConsumer"
    /\ IF ~config.handler
         THEN /\ mpc' = "errMissingHandler"
              /\ spc' = "stopTaskThreads"
              /\ taskQueueClosed' = TRUE
              /\ UNCHANGED cpc
         ELSE IF ~config.taskPayloadHandler
           THEN /\ mpc' = "errMissingPayloadHandler"
                /\ spc' = "stopTaskThreads"
                /\ taskQueueClosed' = TRUE
                /\ UNCHANGED cpc
           ELSE /\ mpc' = "waitSignal"
                /\ cpc' = "reserve"
                /\ UNCHANGED <<spc, taskQueueClosed>>
    /\ UNCHANGED <<config, registryVars, ctask, reserved, reserveOutcome,
                   reservesSinceAck, job, taskQueue, taskQueueQuit,
                   routineVars, waitErr, eventVars, calls, brokerClosed,
                   closeErr, panicked>>
    /\ threadHeartbeat' = 0
    /\ ackErr' = FALSE

\* StartConsumer without the test of taskPayloadHandler
StartConsumerSkipsPayloadCheck ==
    /\ mpc = "startConsumer"
    /\ IF ~config.handler
         THEN /\ mpc' = "errMissingHandler"
              /\ UNCHANGED cpc
         ELSE /\ mpc' = "waitSignal"
              /\ cpc' = "reserve"
    /\ UNCHANGED <<config, registryVars, ctask, reserved, reserveOutcome,
                   reservesSinceAck, job, queueVars, routineVars,
                   supervisorVars, eventVars, calls, brokerClosed, closeErr,
                   panicked>>
    /\ threadHeartbeat' = 0
    /\ ackErr' = FALSE

\* c.StartConsumer(): both handlers are required, then the loop is spawned
StartConsumer ==
    /\ mpc = "startConsumer"
    /\ IF ~config.handler
         THEN /\ mpc' = "errMissingHandler"
              /\ UNCHANGED cpc
         ELSE IF ~config.taskPayloadHandler
           THEN /\ mpc' = "errMissingPayloadHandler"
                /\ UNCHANGED cpc
           ELSE /\ mpc' = "waitSignal"
                /\ cpc' = "reserve"
    /\ UNCHANGED <<config, registryVars, ctask, reserved, reserveOutcome,
                   reservesSinceAck, job, queueVars, routineVars,
                   supervisorVars, eventVars, calls, brokerClosed, closeErr,
                   panicked>>
    /\ threadHeartbeat' = 0
    /\ ackErr' = FALSE

\* Signal with the two stop calls exchanged: StopWorker is entered first
SignalStopsWorkerFirst ==
    /\ mpc = "waitSignal"
    /\ mpc' = "sw_signal"
    /\ UNCHANGED <<config, registryVars, consumerVars, job, queueVars,
                   routineVars, supervisorVars, eventVars, calls,
                   brokerClosed, closeErr, panicked>>
    /\ threadHeartbeat' = 0
    /\ ackErr' = FALSE

\* <-done: SIGINT or SIGTERM arrived; StopConsumer is entered
Signal ==
    /\ mpc = "waitSignal"
    /\ mpc' = "sc_signal"
    /\ UNCHANGED <<config, registryVars, consumerVars, job, queueVars,
                   routineVars, supervisorVars, eventVars, calls,
                   brokerClosed, closeErr, panicked>>
    /\ threadHeartbeat' = 0
    /\ ackErr' = FALSE

\* ============================================================== Consumer
\* what handler.Reserve can return: a timeout, another failure, no job
\* (id 0), or the next job with one of the bodies; the jobs of one run are
\* bounded by MaxJobs and, together with the pool's routines, by MaxWork
ReserveResults ==
    {[id |-> 0, body |-> BodyNil, err |-> e] : e \in {"timeout", "EOF"}}
    \cup {[id |-> 0, body |-> BodyNil, err |-> ""]}
    \cup (IF reserved < MaxJobs /\ reserved + config.Concurrency < MaxWork
            THEN {[id |-> reserved + 1, body |-> b, err |-> ""] : b \in Bodies}
            ELSE {})

\* handlePayload with both early returns lost: the errors are built, and the
\* task, left with whatever was decoded, is handed over all the same
handlePayloadFallsThrough(id, body) ==
    [err |-> IF body = BodyNil THEN "EmptyPayload"
             ELSE IF Unmarshal(body).err THEN "InvalidPayload" ELSE "",
     handed |-> TRUE,
     task |-> [Id |-> id, Name |-> Unmarshal(body).Name]]

\* Consumer.handlePayload: the error it returns ("" for nil) and the task it
\* passes to taskPayloadHandler.HandlePayload
handlePayload(id, body) ==
    IF body = BodyNil
      THEN [err |-> "EmptyPayload", handed |-> FALSE, task |-> NoTask]
      ELSE IF Unmarshal(body).err
        THEN [err |-> "InvalidPayload", handed |-> FALSE, task |-> NoTask]
        ELSE [err |-> "", handed |-> TRUE,
              task |-> [Id |-> id, Name |-> Unmarshal(body).Name]]

\* a queue made one slot too large
TaskQueueCapOffByOne == config.Concurrency + 1

\* capacity of Worker.taskQueue
TaskQueueCap == config.Concurrency

\* Connector.HandlePayload entered with a task: the task enters the queue at
\* once when there is room, otherwise the consumer stays inside the call
HandlePayload(task, jobs) ==
    IF Len(taskQueue) < TaskQueueCap
      THEN /\ taskQueue' = Append(taskQueue, task)
           /\ job' = [jobs EXCEPT ![task.Id].accepted = TRUE]
           /\ cpc' = "select"
           /\ ctask' = NoTask
      ELSE /\ job' = jobs
           /\ cpc' = "handlePayload"
           /\ ctask' = task
           /\ UNCHANGED taskQueue

\* the broker has received an acknowledgment (Delete, Bury or Touch)
Acked == \E id \in JobIds : calls[id] # NoCalls

\* reservesSinceAck after one more con.Reserve call; nothing is counted
\* before the first acknowledgment
CountReserve ==
    IF ~Acked THEN 0
    ELSE IF reservesSinceAck < MaxReserveCount THEN reservesSinceAck + 1
    ELSE MaxReserveCount

\* handleConsume that does not wait for HandlePayload to return (the call
\* started with `go`): with a full queue the loop goes on to its select
ReserveWithoutWaiting ==
    /\ cpc = "reserve"
    /\ reservesSinceAck' = CountReserve
    /\ \E res \in ReserveResults :
         /\ reserveOutcome' = ReserveError(res.err)
         /\ IF res.err # "" \/ res.id = 0
              THEN /\ cpc' = "select"
                   /\ UNCHANGED <<ctask, reserved, job, taskQueue>>
              ELSE LET hp == handlePayload(res.id, res.body)
                       jobs == [job EXCEPT ![res.id].body = res.body,
                                           ![res.id].logged = hp.err,
                                           ![res.id].handed = hp.handed]
                   IN  /\ reserved' = res.id
                       /\ cpc' = "select"
                       /\ ctask' = NoTask
                       /\ IF hp.handed /\ Len(taskQueue) < TaskQueueCap
                            THEN /\ taskQueue' = Append(taskQueue, hp.task)
                                 /\ job' = [jobs EXCEPT
                                            ![res.id].accepted = TRUE]
                            ELSE /\ job' = jobs
                                 /\ UNCHANGED taskQueue
    /\ UNCHANGED <<config, registryVars, mpc, taskQueueClosed, taskQueueQuit,
                   routineVars, supervisorVars, eventVars, calls,
                   brokerClosed, closeErr, panicked>>
    /\ threadHeartbeat' = 0
    /\ ackErr' = FALSE

\* first half of one handleConsume iteration: Reserve, then handlePayload
Reserve ==
    /\ cpc = "reserve"
    /\ reservesSinceAck' = CountReserve
    /\ \E res \in ReserveResults :
         /\ reserveOutcome' = ReserveError(res.err)
         /\ IF res.err # "" \/ res.id = 0
              THEN /\ cpc' = "select"
                   /\ UNCHANGED <<ctask, reserved, job, taskQueue>>
              ELSE LET hp == handlePayload(res.id, res.body)
                       jobs == [job EXCEPT ![res.id].body = res.body,
                                           ![res.id].logged = hp.err,
                                           ![res.id].handed = hp.handed]
                   IN  /\ reserved' = res.id
                       /\ IF hp.handed
                            THEN HandlePayload(hp.task, jobs)
                            ELSE /\ job' = jobs
                                 /\ cpc' = "select"
                                 /\ UNCHANGED <<ctask, taskQueue>>
    /\ UNCHANGED <<config, registryVars, mpc, taskQueueClosed, taskQueueQuit,
                   routineVars, supervisorVars, eventVars, calls,
                   brokerClosed, closeErr, panicked>>
    /\ threadHeartbeat' = 0
    /\ ackErr' = FALSE

\* Connector.HandlePayload, a retried submission succeeds
Submit ==
    /\ cpc = "handlePayload"
    /\ ~taskQueueClosed
    /\ Len(taskQueue) < TaskQueueCap
    /\ HandlePayload(ctask, job)
    /\ UNCHANGED <<config, registryVars, mpc, reserved, reserveOutcome,
                   reservesSinceAck, taskQueueClosed, taskQueueQuit,
                   routineVars, supervisorVars, eventVars, calls,
                   brokerClosed, closeErr, panicked>>
    /\ threadHeartbeat' = 0
    /\ ackErr' = FALSE

\* Connector.HandlePayload, the accept timeout elapses on the full queue: it
\* is logged and the same submission is made again
AcceptTimeout ==
    /\ cpc = "handlePayload"
    /\ ~taskQueueClosed
    /\ Len(taskQueue) >= TaskQueueCap
    /\ HandlePayload(ctask, job)
    /\ UNCHANGED <<config, registryVars, mpc, reserved, reserveOutcome,
                   reservesSinceAck, taskQueueClosed, taskQueueQuit,
                   routineVars, supervisorVars, eventVars, calls,
                   brokerClosed, closeErr, panicked>>
    /\ threadHeartbeat' = 0
    /\ ackErr' = FALSE

\* AckFor with the Progress case falling into the Heartbeat case
AckForProgressTouches(ev) ==
    CASE ev.EventId = "Error" ->
           [op |-> "Bury", id |-> ev.Task.Id, pri |-> BuryPriority]
      [] ev.EventId = "Success" ->
           [op |-> "Delete", id |-> ev.Task.Id, pri |-> 0]
      [] OTHER -> [op |-> "Touch", id |-> ev.Task.Id, pri |-> 0]

\* AckFor acknowledging the id of the current Reserve, not the event's task
AckForReservedId(ev) ==
    CASE ev.EventId = "Error" ->
           [op |-> "Bury", id |-> reserved, pri |-> BuryPriority]
      [] ev.EventId = "Success" ->
           [op |-> "Delete", id |-> reserved, pri |-> 0]
      [] ev.EventId = "Heartbeat" ->
           [op |-> "Touch", id |-> reserved, pri |-> 0]
      [] OTHER -> [op |-> "none", id |-> 0, pri |-> 0]

\* AckFor giving a failed task back to the queue: Release, not Bury
AckForReleasesOnError(ev) ==
    CASE ev.EventId = "Error" ->
           [op |-> "Release", id |-> ev.Task.Id, pri |-> BuryPriority]
      [] ev.EventId = "Success" ->
           [op |-> "Delete", id |-> ev.Task.Id, pri |-> 0]
      [] ev.EventId = "Heartbeat" ->
           [op |-> "Touch", id |-> ev.Task.Id, pri |-> 0]
      [] OTHER -> [op |-> "none", id |-> 0, pri |-> 0]

\* the broker call handleConsume makes for an outcome event
AckFor(ev) ==
    CASE ev.EventId = "Error" ->
           [op |-> "Bury", id |-> ev.Task.Id, pri |-> BuryPriority]
      [] ev.EventId = "Success" ->
           [op |-> "Delete", id |-> ev.Task.Id, pri |-> 0]
      [] ev.EventId = "Heartbeat" ->
           [op |-> "Touch", id |-> ev.Task.Id, pri |-> 0]
      [] OTHER -> [op |-> "none", id |-> 0, pri |-> 0]

\* the broker's record after it received call c
Record(c) ==
    IF c.op = "none" THEN calls
    ELSE [calls EXCEPT ![c.id] =
            [@ EXCEPT ![c.op] = @ + 1,
                      !.pri = IF c.op = "Bury" THEN @ \cup {c.pri} ELSE @]]

\* TakeQuit on a quitChannel with a buffer: StopConsumer's send returns
\* before the loop has taken the signal
TakeQuitBuffered ==
    /\ mpc = "sc_signal"
    /\ mpc' = "sc_close"
    /\ UNCHANGED <<config, registryVars, consumerVars, job, queueVars,
                   routineVars, supervisorVars, eventVars, calls,
                   brokerClosed, closeErr, panicked>>
    /\ threadHeartbeat' = 0
    /\ ackErr' = FALSE

\* select, case <-con.quitChannel: rendezvous with StopConsumer's send
TakeQuit ==
    /\ cpc = "select"
    /\ mpc = "sc_signal"
    /\ cpc' = "ackQuit"
    /\ mpc' = "sc_close"
    /\ reserveOutcome' = NoOutcome
    /\ UNCHANGED <<config, registryVars, ctask, reserved, reservesSinceAck,
                   job, queueVars, routineVars, supervisorVars, eventVars,
                   calls, brokerClosed, closeErr, panicked>>
    /\ threadHeartbeat' = 0
    /\ ackErr' = FALSE

\* TakeEvent that goes back to the select, not to Reserve, after an event:
\* the loop drains every pending event before it reserves again
TakeEventDrains ==
    /\ cpc = "select"
    /\ IF taskEventChannel = <<>>
         THEN /\ taskEventClosed
              /\ Panic("nil pointer dereference")
              /\ UNCHANGED taskEventClosed
         ELSE /\ taskEventChannel' = Tail(taskEventChannel)
              /\ calls' = Record(AckFor(Head(taskEventChannel)))
              /\ reservesSinceAck' =
                   IF AckFor(Head(taskEventChannel)).op = "none"
                     THEN reservesSinceAck ELSE 0
              /\ cpc' = "select"
              /\ reserveOutcome' = NoOutcome
              /\ UNCHANGED <<config, registryVars, mpc, ctask, reserved,
                             queueVars, routineVars, supervisorVars,
                             taskEventClosed, brokerClosed, closeErr,
                             panicked>>
              /\ threadHeartbeat' = 0
              /\ ackErr' \in IF AckFor(Head(taskEventChannel)).op = "none"
                            THEN {FALSE} ELSE BOOLEAN
    /\ UNCHANGED job

\* TakeEvent returning from the loop when the broker call fails
TakeEventStopsOnError ==
    /\ cpc = "select"
    /\ IF taskEventChannel = <<>>
         THEN /\ taskEventClosed
              /\ Panic("nil pointer dereference")
              /\ UNCHANGED taskEventClosed
         ELSE /\ taskEventChannel' = Tail(taskEventChannel)
              /\ calls' = Record(AckFor(Head(taskEventChannel)))
              /\ reservesSinceAck' =
                   IF AckFor(Head(taskEventChannel)).op = "none"
                     THEN reservesSinceAck ELSE 0
              /\ reserveOutcome' = NoOutcome
              /\ UNCHANGED <<config, registryVars, mpc, ctask, reserved,
                             queueVars, routineVars, supervisorVars,
                             taskEventClosed, brokerClosed, closeErr,
                             panicked>>
              /\ threadHeartbeat' = 0
              /\ ackErr' \in IF AckFor(Head(taskEventChannel)).op = "none"
                            THEN {FALSE} ELSE BOOLEAN
              /\ cpc' = IF ackErr' THEN "done" ELSE "reserve"
    /\ UNCHANGED job

\* select, case taskProcessEvent := <-con.taskEventChannel (a receive from
\* the closed, drained channel yields nil and the dereference panics); the
\* broker call may return an error, which is logged
TakeEvent ==
    /\ cpc = "select"
    /\ IF taskEventChannel = <<>>
         THEN /\ taskEventClosed
              /\ Panic("nil pointer dereference")
              /\ UNCHANGED taskEventClosed
         ELSE /\ taskEventChannel' = Tail(taskEventChannel)
              /\ calls' = Record(AckFor(Head(taskEventChannel)))
              /\ reservesSinceAck' =
                   IF AckFor(Head(taskEventChannel)).op = "none"
                     THEN reservesSinceAck ELSE 0
              /\ cpc' = "reserve"
              /\ reserveOutcome' = NoOutcome
              /\ UNCHANGED <<config, registryVars, mpc, ctask, reserved,
                             queueVars, routineVars, supervisorVars,
                             taskEventClosed, brokerClosed, closeErr,
                             panicked>>
              /\ threadHeartbeat' = 0
              /\ ackErr' \in IF AckFor(Head(taskEventChannel)).op = "none"
                            THEN {FALSE} ELSE BOOLEAN
    /\ UNCHANGED job

\* select, case <-time.After(con.config.Heartbeat): no other case is ready
ConsumerHeartbeat ==
    /\ cpc = "select"
    /\ mpc # "sc_signal"
    /\ taskEventChannel = <<>>
    /\ ~taskEventClosed
    /\ cpc' = "reserve"
    /\ reserveOutcome' = NoOutcome
    /\ UNCHANGED <<config, registryVars, mpc, ctask, reserved,
                   reservesSinceAck, job, queueVars, routineVars,
                   supervisorVars, eventVars, calls, brokerClosed, closeErr,
                   panicked>>
    /\ threadHeartbeat' = 0
    /\ ackErr' = FALSE

\* StopConsumer: close(con.taskEventChannel); a routine blocked writing to
\* the channel panics
CloseEventChannel ==
    /\ mpc = "sc_close"
    /\ IF \E r \in Routines : rpc[r] = "send"
         THEN Panic("send on closed channel")
         ELSE /\ mpc' = "sc_wait"
              /\ UNCHANGED <<config, registryVars, consumerVars, queueVars,
                             routineVars, supervisorVars, taskEventChannel,
                             calls, brokerClosed, closeErr, panicked>>
              /\ threadHeartbeat' = 0
              /\ ackErr' = FALSE
    /\ taskEventClosed' = TRUE
    /\ UNCHANGED job

\* AckQuit without the return: the loop acknowledges and goes on reserving
AckQuitWithoutReturn ==
    /\ cpc = "ackQuit"
    /\ mpc = "sc_wait"
    /\ cpc' = "reserve"
    /\ mpc' = "sc_closeConn"
    /\ UNCHANGED <<config, registryVars, ctask, reserved, reserveOutcome,
                   reservesSinceAck, job, queueVars, routineVars,
                   supervisorVars, eventVars, calls, brokerClosed, closeErr,
                   panicked>>
    /\ threadHeartbeat' = 0
    /\ ackErr' = FALSE

\* con.quitChannel <- true; return: rendezvous with StopConsumer's receive
AckQuit ==
    /\ cpc = "ackQuit"
    /\ mpc = "sc_wait"
    /\ cpc' = "done"
    /\ mpc' = "sc_closeConn"
    /\ UNCHANGED <<config, registryVars, ctask, reserved, reserveOutcome,
                   reservesSinceAck, job, queueVars, routineVars,
                   supervisorVars, eventVars, calls, brokerClosed, closeErr,
                   panicked>>
    /\ threadHeartbeat' = 0
    /\ ackErr' = FALSE

\* StopConsumer: close(con.quitChannel); err := con.Close()
CloseConnection ==
    /\ mpc = "sc_closeConn"
    /\ brokerClosed' = brokerClosed + 1
    /\ closeErr' \in BOOLEAN
    /\ mpc' = "sc_closed"
    /\ UNCHANGED <<config, registryVars, consumerVars, job, queueVars,
                   routineVars, supervisorVars, eventVars, calls, panicked>>
    /\ threadHeartbeat' = 0
    /\ ackErr' = FALSE

\* StopConsumer: the error of Close, if any, is logged and StopConsumer
\* returns; StopWorker is entered
StopConsumerReturn ==
    /\ mpc = "sc_closed"
    /\ closeErr' = FALSE
    /\ mpc' = "sw_signal"
    /\ UNCHANGED <<config, registryVars, consumerVars, job, queueVars,
                   routineVars, supervisorVars, eventVars, calls,
                   brokerClosed, panicked>>
    /\ threadHeartbeat' = 0
    /\ ackErr' = FALSE

\* ================================================================ Worker
IsTerminal(ev) == ev.EventId \in {"Success", "Error"}

\* where a routine continues once its event is written
AfterSend(ev) == IF IsTerminal(ev) THEN "running" ELSE "handle"

\* Connector outcome relay writing ev for routine r to the consumer's
\* channel: the event is buffered when there is room, otherwise the routine
\* blocks in the write
Relay(r, ev) ==
    IF Len(taskEventChannel) < EventChannelCap
      THEN /\ taskEventChannel' = Append(taskEventChannel, ev)
           /\ rpc' = [rpc EXCEPT ![r] = AfterSend(ev)]
           /\ rev' = [rev EXCEPT ![r] = NoEvent]
           /\ rtask' = [rtask EXCEPT ![r] =
                          IF IsTerminal(ev) THEN NoTask ELSE ev.Task]
      ELSE /\ rpc' = [rpc EXCEPT ![r] = "send"]
           /\ rev' = [rev EXCEPT ![r] = ev]
           /\ rtask' = [rtask EXCEPT ![r] = ev.Task]
           /\ UNCHANGED taskEventChannel

\* routine r calls the Worker's OnTaskError/OnTaskSuccess/OnTaskHeartbeat/
\* OnTaskResult with the task of ev: jobs is the history with that call
\* recorded, queue the task queue the step leaves; the relay's write panics
\* on the closed channel
Emit(r, ev, jobs, queue) ==
    /\ job' = jobs
    /\ IF taskEventClosed
         THEN Panic("send on closed channel")
         ELSE /\ Relay(r, ev)
              /\ taskQueue' = queue
              /\ UNCHANGED <<config, registryVars, mpc, consumerVars,
                             taskQueueClosed, taskQueueQuit, taskQueueCounter,
                             created, rid, supervisorVars, calls,
                             brokerClosed, closeErr, panicked>>
              /\ threadHeartbeat' = 0
              /\ ackErr' = FALSE
    /\ UNCHANGED taskEventClosed

\* Worker.handle entry without the mutex: the increment and the read of the
\* counter race, and the routine may read a value another routine also read
RoutineStartUnlocked(r) ==
    /\ rpc[r] = "spawned"
    /\ \A q \in Routines : q < r => rpc[q] # "spawned"
    /\ taskQueueCounter' = taskQueueCounter + 1
    /\ \E id \in 1..(taskQueueCounter + 1) : rid' = [rid EXCEPT ![r] = id]
    /\ rpc' = [rpc EXCEPT ![r] = "running"]
    /\ UNCHANGED <<config, registryVars, mpc, consumerVars, job, queueVars,
                   created, rtask, rev, supervisorVars, eventVars, calls,
                   brokerClosed, closeErr, panicked>>
    /\ threadHeartbeat' = 0
    /\ ackErr' = FALSE

\* Worker.handle entry: the thread id is taken under the mutex.  Spawned
\* routines cannot be told apart before they hold an id, so index r names
\* the r-th routine to take the mutex.
RoutineStart(r) ==
    /\ rpc[r] = "spawned"
    /\ \A q \in Routines : q < r => rpc[q] # "spawned"
    /\ taskQueueCounter' = taskQueueCounter + 1
    /\ rid' = [rid EXCEPT ![r] = taskQueueCounter + 1]
    /\ rpc' = [rpc EXCEPT ![r] = "running"]
    /\ UNCHANGED <<config, registryVars, mpc, consumerVars, job, queueVars,
                   created, rtask, rev, supervisorVars, eventVars, calls,
                   brokerClosed, closeErr, panicked>>
    /\ threadHeartbeat' = 0
    /\ ackErr' = FALSE

\* TakeStop that also reaches a routine inside handleTask: the stop token
\* ends the routine while its handler runs
TakeStopInterrupts(r) ==
    /\ rpc[r] \in {"running", "handle"}
    /\ taskQueueQuit > 0
    /\ taskQueueQuit' = taskQueueQuit - 1
    /\ rpc' = [rpc EXCEPT ![r] = "terminated"]
    /\ UNCHANGED <<config, registryVars, mpc, consumerVars, job, taskQueue,
                   taskQueueClosed, taskQueueCounter, created, rid, rtask,
                   rev, supervisorVars, eventVars, calls, brokerClosed,
                   closeErr, panicked>>
    /\ threadHeartbeat' = 0
    /\ ackErr' = FALSE

\* select, case <-w.taskQueueQuit: return
TakeStop(r) ==
    /\ rpc[r] = "running"
    /\ taskQueueQuit > 0
    /\ taskQueueQuit' = taskQueueQuit - 1
    /\ rpc' = [rpc EXCEPT ![r] = "terminated"]
    /\ UNCHANGED <<config, registryVars, mpc, consumerVars, job, taskQueue,
                   taskQueueClosed, taskQueueCounter, created, rid, rtask,
                   rev, supervisorVars, eventVars, calls, brokerClosed,
                   closeErr, panicked>>
    /\ threadHeartbeat' = 0
    /\ ackErr' = FALSE

\* Dequeue taking the task submitted last
DequeueLast(r) ==
    /\ rpc[r] = "running"
    /\ taskQueue # <<>>
    /\ LET task == taskQueue[Len(taskQueue)] IN
       IF GetRegisteredTaskHandler(task).err # ""
         THEN Emit(r, [EventId |-> "Error", Task |-> task],
                   [job EXCEPT ![task.Id].dequeued = @ + 1,
                               ![task.Id].evError = @ + 1,
                               ![task.Id].result = "unknown",
                               ![task.Id].signals = Append(@, "Error")],
                   SubSeq(taskQueue, 1, Len(taskQueue) - 1))
         ELSE /\ job' = [job EXCEPT ![task.Id].dequeued = @ + 1,
                                    ![task.Id].pre = TRUE,
                                    ![task.Id].invoked = @ + 1,
                                    ![task.Id].signals =
                                        @ \o <<"OnPreTask", "Handle">>]
              /\ taskQueue' = SubSeq(taskQueue, 1, Len(taskQueue) - 1)
              /\ rtask' = [rtask EXCEPT ![r] = task]
              /\ rpc' = [rpc EXCEPT ![r] = "handle"]
              /\ created' = GetRegisteredTaskHandler(task).created
              /\ UNCHANGED <<config, registryVars, mpc, consumerVars,
                             taskQueueClosed, taskQueueQuit, taskQueueCounter,
                             rid, rev, supervisorVars, eventVars, calls,
                             brokerClosed, closeErr, panicked>>
              /\ threadHeartbeat' = 0
              /\ ackErr' = FALSE

\* Dequeue reading the head of the queue without removing it
DequeuePeeks(r) ==
    /\ rpc[r] = "running"
    /\ taskQueue # <<>>
    /\ LET task == Head(taskQueue) IN
       IF GetRegisteredTaskHandler(task).err # ""
         THEN Emit(r, [EventId |-> "Error", Task |-> task],
                   [job EXCEPT ![task.Id].dequeued = @ + 1,
                               ![task.Id].evError = @ + 1,
                               ![task.Id].result = "unknown",
                               ![task.Id].signals = Append(@, "Error")],
                   taskQueue)
         ELSE /\ job' = [job EXCEPT ![task.Id].dequeued = @ + 1,
                                    ![task.Id].pre = TRUE,
                                    ![task.Id].invoked = @ + 1,
                                    ![task.Id].signals =
                                        @ \o <<"OnPreTask", "Handle">>]
              /\ UNCHANGED taskQueue
              /\ rtask' = [rtask EXCEPT ![r] = task]
              /\ rpc' = [rpc EXCEPT ![r] = "handle"]
              /\ created' = GetRegisteredTaskHandler(task).created
              /\ UNCHANGED <<config, registryVars, mpc, consumerVars,
                             taskQueueClosed, taskQueueQuit, taskQueueCounter,
                             rid, rev, supervisorVars, eventVars, calls,
                             brokerClosed, closeErr, panicked>>
              /\ threadHeartbeat' = 0
              /\ ackErr' = FALSE

\* select, case task := <-w.taskQueue with a task, then Worker.handleTask up
\* to taskHandler.Handle(): an unknown name goes to OnTaskError, a known one
\* to OnPreTask and into the handler
Dequeue(r) ==
    /\ rpc[r] = "running"
    /\ taskQueue # <<>>
    /\ LET task == Head(taskQueue) IN
       IF GetRegisteredTaskHandler(task).err # ""
         THEN Emit(r, [EventId |-> "Error", Task |-> task],
                   [job EXCEPT ![task.Id].dequeued = @ + 1,
                               ![task.Id].evError = @ + 1,
                               ![task.Id].result = "unknown",
                               ![task.Id].signals = Append(@, "Error")],
                   Tail(taskQueue))
         ELSE /\ job' = [job EXCEPT ![task.Id].dequeued = @ + 1,
                                    ![task.Id].pre = TRUE,
                                    ![task.Id].invoked = @ + 1,
                                    ![task.Id].signals =
                                        @ \o <<"OnPreTask", "Handle">>]
              /\ taskQueue' = Tail(taskQueue)
              /\ rtask' = [rtask EXCEPT ![r] = task]
              /\ rpc' = [rpc EXCEPT ![r] = "handle"]
              /\ created' = GetRegisteredTaskHandler(task).created
              /\ UNCHANGED <<config, registryVars, mpc, consumerVars,
                             taskQueueClosed, taskQueueQuit, taskQueueCounter,
                             rid, rev, supervisorVars, eventVars, calls,
                             brokerClosed, closeErr, panicked>>
              /\ threadHeartbeat' = 0
              /\ ackErr' = FALSE

\* select, case task := <-w.taskQueue on the closed, drained queue: the nil
\* task ends the routine
TakeNil(r) ==
    /\ rpc[r] = "running"
    /\ taskQueue = <<>>
    /\ taskQueueClosed
    /\ rpc' = [rpc EXCEPT ![r] = "terminated"]
    /\ UNCHANGED <<config, registryVars, mpc, consumerVars, job, queueVars,
                   taskQueueCounter, created, rid, rtask, rev, supervisorVars,
                   eventVars, calls, brokerClosed, closeErr, panicked>>
    /\ threadHeartbeat' = 0
    /\ ackErr' = FALSE

\* ThreadHeartbeat reporting the pool's counter, not the routine's own id
ThreadHeartbeatOfCounter(r) ==
    /\ rpc[r] = "running"
    /\ taskQueueQuit = 0
    /\ taskQueue = <<>>
    /\ ~taskQueueClosed
    /\ threadHeartbeat' = taskQueueCounter
    /\ ackErr' = FALSE
    /\ UNCHANGED <<config, registryVars, mpc, consumerVars, job, queueVars,
                   routineVars, supervisorVars, eventVars, calls,
                   brokerClosed, closeErr, panicked>>

\* select, case <-time.After(w.config.Heartbeat): no other case is ready;
\* OnThreadHeartbeat(id) and the next iteration.  threadHeartbeat is the
\* signal of the step just taken: every other step leaves it 0
ThreadHeartbeat(r) ==
    /\ rpc[r] = "running"
    /\ taskQueueQuit = 0
    /\ taskQueue = <<>>
    /\ ~taskQueueClosed
    /\ threadHeartbeat' = rid[r]
    /\ ackErr' = FALSE
    /\ UNCHANGED <<config, registryVars, mpc, consumerVars, job, queueVars,
                   routineVars, supervisorVars, eventVars, calls,
                   brokerClosed, closeErr, panicked>>

\* the handler running in routine r calls OnTaskHeartbeat or OnTaskResult
HandlerNotify(r) ==
    /\ rpc[r] = "handle"
    /\ LET task == rtask[r] IN
       /\ job[task.Id].evHeartbeat + job[task.Id].evProgress < MaxBeats
       /\ \/ Emit(r, [EventId |-> "Heartbeat", Task |-> task],
                  [job EXCEPT ![task.Id].evHeartbeat = @ + 1], taskQueue)
          \/ Emit(r, [EventId |-> "Progress", Task |-> task],
                  [job EXCEPT ![task.Id].evProgress = @ + 1], taskQueue)

\* HandlerReturn without the else: after OnTaskError the success path runs too
HandlerReturnFallsThrough(r) ==
    /\ rpc[r] = "handle"
    /\ LET task == rtask[r] IN
       \/ Emit(r, [EventId |-> "Success", Task |-> task],
               [job EXCEPT ![task.Id].evError = @ + 1,
                           ![task.Id].evSuccess = @ + 1,
                           ![task.Id].post = TRUE,
                           ![task.Id].result = "err",
                           ![task.Id].signals =
                               @ \o <<"Error", "OnPostTask", "Success">>],
               taskQueue)
       \/ Emit(r, [EventId |-> "Success", Task |-> task],
               [job EXCEPT ![task.Id].evSuccess = @ + 1,
                           ![task.Id].post = TRUE,
                           ![task.Id].result = "ok",
                           ![task.Id].signals =
                               @ \o <<"OnPostTask", "Success">>], taskQueue)

\* HandlerReturn with the error test inverted: a failure is reported through
\* OnTaskSuccess, a success through OnTaskError
HandlerReturnInverted(r) ==
    /\ rpc[r] = "handle"
    /\ LET task == rtask[r] IN
       \/ Emit(r, [EventId |-> "Success", Task |-> task],
               [job EXCEPT ![task.Id].evSuccess = @ + 1,
                           ![task.Id].post = TRUE,
                           ![task.Id].result = "err",
                           ![task.Id].signals =
                               @ \o <<"OnPostTask", "Success">>], taskQueue)
       \/ Emit(r, [EventId |-> "Error", Task |-> task],
               [job EXCEPT ![task.Id].evError = @ + 1,
                           ![task.Id].result = "ok",
                           ![task.Id].signals = Append(@, "Error")],
               taskQueue)

\* HandlerReturn reporting the success before the post-execution signal
HandlerReturnSuccessFirst(r) ==
    /\ rpc[r] = "handle"
    /\ LET task == rtask[r] IN
       \/ Emit(r, [EventId |-> "Error", Task |-> task],
               [job EXCEPT ![task.Id].evError = @ + 1,
                           ![task.Id].result = "err",
                           ![task.Id].signals = Append(@, "Error")],
               taskQueue)
       \/ Emit(r, [EventId |-> "Success", Task |-> task],
               [job EXCEPT ![task.Id].evSuccess = @ + 1,
                           ![task.Id].post = TRUE,
                           ![task.Id].result = "ok",
                           ![task.Id].signals =
                               @ \o <<"Success", "OnPostTask">>], taskQueue)

\* Worker.handleTask after taskHandler.Handle() returned: OnTaskError on a
\* failure, OnPostTask then OnTaskSuccess otherwise
HandlerReturn(r) ==
    /\ rpc[r] = "handle"
    /\ LET task == rtask[r] IN
       \/ Emit(r, [EventId |-> "Error", Task |-> task],
               [job EXCEPT ![task.Id].evError = @ + 1,
                           ![task.Id].result = "err",
                           ![task.Id].signals = Append(@, "Error")],
               taskQueue)
       \/ Emit(r, [EventId |-> "Success", Task |-> task],
               [job EXCEPT ![task.Id].evSuccess = @ + 1,
                           ![task.Id].post = TRUE,
                           ![task.Id].result = "ok",
                           ![task.Id].signals =
                               @ \o <<"OnPostTask", "Success">>], taskQueue)

\* the relay's blocked write completes once the channel has room
Send(r) ==
    /\ rpc[r] = "send"
    /\ ~taskEventClosed
    /\ Len(taskEventChannel) < EventChannelCap
    /\ Relay(r, rev[r])
    /\ UNCHANGED <<config, registryVars, mpc, consumerVars, job, queueVars,
                   taskQueueCounter, created, rid, supervisorVars,
                   taskEventClosed, calls, brokerClosed, closeErr, panicked>>
    /\ threadHeartbeat' = 0
    /\ ackErr' = FALSE

\* ============================================================ Supervisor
\* StopWorker: w.quit <- true, received by the supervisor's <-w.quit
SupervisorTakeQuit ==
    /\ mpc = "sw_signal"
    /\ spc = "waitQuit"
    /\ mpc' = "sw_close"
    /\ spc' = "stopTaskThreads"
    /\ UNCHANGED <<config, registryVars, consumerVars, job, queueVars,
                   routineVars, waitErr, eventVars, calls, brokerClosed,
                   closeErr, panicked>>
    /\ threadHeartbeat' = 0
    /\ ackErr' = FALSE

\* StopWorker: close(w.taskQueue)
CloseTaskQueue ==
    /\ mpc = "sw_close"
    /\ taskQueueClosed' = TRUE
    /\ mpc' = "sw_wait"
    /\ UNCHANGED <<config, registryVars, consumerVars, job, taskQueue,
                   taskQueueQuit, routineVars, supervisorVars, eventVars,
                   calls, brokerClosed, closeErr, panicked>>
    /\ threadHeartbeat' = 0
    /\ ackErr' = FALSE

\* stopTaskThreads: the loop of Concurrency sends on w.taskQueueQuit, whose
\* buffer holds Concurrency tokens
StopTaskThreads ==
    /\ spc = "stopTaskThreads"
    /\ taskQueueQuit' = taskQueueQuit + config.Concurrency
    /\ spc' = "waitTimeout"
    /\ UNCHANGED <<config, registryVars, mpc, consumerVars, job, taskQueue,
                   taskQueueClosed, routineVars, waitErr, eventVars, calls,
                   brokerClosed, closeErr, panicked>>
    /\ threadHeartbeat' = 0
    /\ ackErr' = FALSE

\* the WaitGroup counter: routines that have not run wg.Done()
Pending == {r \in Active : rpc[r] # "terminated"}

\* WaitTimeout returning nil whether or not the WaitGroup is drained
WaitTimeoutIgnoresPending ==
    /\ spc = "waitTimeout"
    /\ waitErr' = FALSE
    /\ spc' = "ackQuit"
    /\ UNCHANGED <<config, registryVars, mpc, consumerVars, job, queueVars,
                   routineVars, eventVars, calls, brokerClosed, closeErr,
                   panicked>>
    /\ threadHeartbeat' = 0
    /\ ackErr' = FALSE

\* util.WaitTimeout returns: nil once the WaitGroup is drained, the timeout
\* error when the timer wins
WaitTimeout ==
    /\ spc = "waitTimeout"
    /\ waitErr' = (Pending # {})
    /\ spc' = "ackQuit"
    /\ UNCHANGED <<config, registryVars, mpc, consumerVars, job, queueVars,
                   routineVars, eventVars, calls, brokerClosed, closeErr,
                   panicked>>
    /\ threadHeartbeat' = 0
    /\ ackErr' = FALSE

\* supervisor: w.quit <- true, received by StopWorker, which closes w.quit
\* and returns
SupervisorAckQuit ==
    /\ spc = "ackQuit"
    /\ mpc = "sw_wait"
    /\ spc' = "ended"
    /\ mpc' = "returned"
    /\ UNCHANGED <<config, registryVars, consumerVars, job, queueVars,
                   routineVars, waitErr, eventVars, calls, brokerClosed,
                   closeErr, panicked>>
    /\ threadHeartbeat' = 0
    /\ ackErr' = FALSE

\* ========================================================= specification
Next ==
    \/ StartWorker
    \/ StartConsumer
    \/ Signal
    \/ Reserve
    \/ Submit
    \/ AcceptTimeout
    \/ TakeQuit
    \/ TakeEvent
    \/ ConsumerHeartbeat
    \/ CloseEventChannel
    \/ AckQuit
    \/ CloseConnection
    \/ StopConsumerReturn
    \/ \E r \in Routines : RoutineStart(r)
    \/ \E r \in Routines : TakeStop(r)
    \/ \E r \in Routines : Dequeue(r)
    \/ \E r \in Routines : TakeNil(r)
    \/ \E r \in Routines : ThreadHeartbeat(r)
    \/ \E r \in Routines : HandlerNotify(r)
    \/ \E r \in Routines : HandlerReturn(r)
    \/ \E r \in Routines : Send(r)
    \/ SupervisorTakeQuit
    \/ CloseTaskQueue
    \/ StopTaskThreads
    \/ WaitTimeout
    \/ SupervisorAckQuit

Spec == Init /\ [][Next]_vars

\* a program using the registry: RegisterTask with any name and factory
Register ==
    /\ Len(registrations) < MaxRegistrations
    /\ \E name \in TaskNames, factory \in Factories :
         /\ registry' = RegisterTask(name, factory)
         /\ registrations' =
              Append(registrations, [name |-> name, factory |-> factory])
    /\ UNCHANGED <<config, resolved, mpc, consumerVars, job, queueVars,
                   routineVars, supervisorVars, eventVars, calls,
                   brokerClosed, closeErr, panicked>>
    /\ threadHeartbeat' = 0
    /\ ackErr' = FALSE

\* a program using the registry: GetRegisteredTaskHandler for any name
Resolve ==
    /\ created < MaxResolves
    /\ \E name \in TaskNames :
         LET r == GetRegisteredTaskHandler([Id |-> 0, Name |-> name]) IN
         /\ resolved' = [name |-> name, err |-> r.err, handler |-> r.handler]
         /\ created' = r.created
    /\ UNCHANGED <<config, registry, registrations, mpc, consumerVars, job,
                   queueVars, taskQueueCounter, rpc, rid, rtask, rev,
                   supervisorVars, eventVars, calls, brokerClosed, closeErr,
                   panicked>>
    /\ threadHeartbeat' = 0
    /\ ackErr' = FALSE

RegistryNext == Register \/ Resolve

RegistrySpec == RegistryInit /\ [][RegistryNext]_vars

\* Every goroutine that can take a step is scheduled: Cli.Start, the consumer
\* loop (Reserve returns, the connector retries), the routines, the
\* supervisor; and every handler returns.  The signal that starts the
\* shutdown and the handlers' notifications are left to the environment.
Fairness ==
    /\ WF_vars(StartWorker) /\ WF_vars(StartConsumer)
    /\ WF_vars(Reserve) /\ WF_vars(Submit)
    /\ WF_vars(TakeQuit) /\ WF_vars(TakeEvent) /\ WF_vars(ConsumerHeartbeat)
    /\ WF_vars(CloseEventChannel) /\ WF_vars(AckQuit)
    /\ WF_vars(CloseConnection) /\ WF_vars(StopConsumerReturn)
    /\ \A r \in Routines :
         /\ WF_vars(RoutineStart(r)) /\ WF_vars(TakeStop(r))
         /\ WF_vars(Dequeue(r)) /\ WF_vars(TakeNil(r))
         /\ WF_vars(HandlerReturn(r)) /\ WF_vars(Send(r))
    /\ WF_vars(SupervisorTakeQuit) /\ WF_vars(CloseTaskQueue)
    /\ WF_vars(StopTaskThreads) /\ WF_vars(WaitTimeout)
    /\ WF_vars(SupervisorAckQuit)

FairSpec == Spec /\ Fairness

\* The same scheduling, but a handler may run for ever: nothing is assumed of
\* taskHandler.Handle(), which the pool calls without a timeout.
StallFairness ==
    /\ WF_vars(StartWorker) /\ WF_vars(StartConsumer)
    /\ WF_vars(Reserve) /\ WF_vars(Submit)
    /\ WF_vars(TakeQuit) /\ WF_vars(TakeEvent) /\ WF_vars(ConsumerHeartbeat)
    /\ WF_vars(CloseEventChannel) /\ WF_vars(AckQuit)
    /\ WF_vars(CloseConnection) /\ WF_vars(StopConsumerReturn)
    /\ \A r \in Routines :
         /\ WF_vars(RoutineStart(r)) /\ WF_vars(TakeStop(r))
         /\ WF_vars(Dequeue(r)) /\ WF_vars(TakeNil(r))
         /\ WF_vars(Send(r))
    /\ WF_vars(SupervisorTakeQuit) /\ WF_vars(CloseTaskQueue)
    /\ WF_vars(StopTaskThreads) /\ WF_vars(WaitTimeout)
    /\ WF_vars(SupervisorAckQuit)

StallSpec == Spec /\ StallFairness


\* ================================================================ claims
\* the consumer loop takes the event at the head of its channel in this step
Receives ==
    /\ taskEventChannel # <<>>
    /\ taskEventChannel' = Tail(taskEventChannel)
    /\ panicked' = ""

\* the broker receives exactly one more call op for job id in this step
OneCall(op, id) ==
    /\ calls'[id][op] = calls[id][op] + 1
    /\ calls'[id].pri =
         (IF op = "Bury" THEN {BuryPriority} ELSE {}) \cup calls[id].pri
    /\ \A o \in {"Delete", "Bury", "Touch", "Release"} \ {op} :
         calls'[id][o] = calls[id][o]
    /\ \A i \in JobIds \ {id} : calls'[i] = calls[i]

\* C1: for every outcome event the consumer loop receives it issues exactly
\* the matching broker call with the event's task id: Error -> Bury(id,
\* BuryPriority), Success -> Delete(id), Heartbeat -> Touch(id), Progress ->
\* no call; and the broker receives no acknowledgment in any other step.
C1_AckMatchesEvent ==
    [][ /\ Receives =>
          LET ev == Head(taskEventChannel) IN
            /\ ev.EventId = "Error" => OneCall("Bury", ev.Task.Id)
            /\ ev.EventId = "Success" => OneCall("Delete", ev.Task.Id)
            /\ ev.EventId = "Heartbeat" => OneCall("Touch", ev.Task.Id)
            /\ ev.EventId = "Progress" => calls' = calls
        /\ calls' # calls => Receives ]_vars

\* C1 witness: a Touch, a Bury and a Delete have been issued, the Delete for
\* a task whose Progress event was received without any Touch
C1_Witness ==
    \E i, j, k \in JobIds :
        /\ calls[i].Touch = 1
        /\ calls[j].Bury = 1 /\ calls[j].pri = {BuryPriority}
        /\ job[k].evProgress = 1 /\ calls[k].Delete = 1 /\ calls[k].Touch = 0

\* number of terminal events (Success, Error) emitted for job id
Terminals(id) == job[id].evSuccess + job[id].evError

\* the pool is done with job id: it was dequeued and no routine holds it
Finished(id) ==
    /\ job[id].dequeued > 0
    /\ \A r \in Routines : rtask[r].Id # id
    /\ panicked = ""

\* C2: for every task a routine dispatches at most one terminal event is
\* emitted at any time and exactly one (Success or Error, not both) once the
\* routine is back from handleTask; after the terminal event no Heartbeat,
\* Progress or further terminal event is emitted for that task.
C2_OneTerminalEvent ==
    /\ [](\A id \in JobIds :
            /\ Terminals(id) <= 1
            /\ Finished(id) => Terminals(id) = 1)
    /\ [][\A id \in JobIds :
            Terminals(id) = 1 =>
              /\ job'[id].evSuccess = job[id].evSuccess
              /\ job'[id].evError = job[id].evError
              /\ job'[id].evHeartbeat = job[id].evHeartbeat
              /\ job'[id].evProgress = job[id].evProgress]_vars

\* C2 witness: one task finished with a notification and then Success, and
\* another finished with Error after its handler ran
C2_Witness ==
    \E i, j \in JobIds :
        /\ Finished(i) /\ Finished(j)
        /\ job[i].evHeartbeat + job[i].evProgress = 1 /\ job[i].evSuccess = 1
        /\ job[j].invoked = 1 /\ job[j].evError = 1

\* C3: Delete(id) is issued only after a handler for the task with that id
\* has returned success; a job whose handler has not succeeded is never
\* deleted, also while and after the consumer and the pool are stopped.
C3_DeleteOnlyAfterSuccess ==
    \A id \in JobIds :
        calls[id].Delete > 0 => job[id].invoked > 0 /\ job[id].result = "ok"

\* C3 witness: StopWorker has returned, one job was deleted after its handler
\* succeeded, and an accepted job whose handler never finished is undeleted
C3_Witness ==
    /\ mpc = "returned"
    /\ \E i, j \in JobIds :
         /\ calls[i].Delete = 1 /\ job[i].result = "ok"
         /\ job[j].accepted /\ job[j].result = "none" /\ calls[j].Delete = 0

\* Cli.Start is waiting for the signal: consumer and pool run, no shutdown
Running == mpc = "waitSignal"

\* C4: for every reserved job whose name is registered and whose handler
\* returns success, while consumer and pool run and no shutdown has begun,
\* the broker receives exactly one Delete call with that job's id and no Bury
\* and no Release call for it.
C4_SuccessDeletesOnce ==
    \A id \in JobIds :
        /\ [](job[id].result = "ok" =>
                /\ calls[id].Delete <= 1
                /\ calls[id].Bury = 0
                /\ calls[id].Release = 0)
        /\ [](job[id].result = "ok" => <>(calls[id].Delete = 1 \/ ~Running))

\* C5: for every reserved job whose task name is not registered, no handler
\* is invoked and no pre-execution signal is emitted; an Error outcome event
\* is emitted and, while consumer and pool run, the broker receives exactly
\* one Bury(id, BuryPriority) call and no Delete for that id.
C5_UnknownNameBuried ==
    \A id \in JobIds :
        /\ [](job[id].body = BodyMissing =>
                /\ job[id].invoked = 0
                /\ ~job[id].pre
                /\ calls[id].Delete = 0
                /\ calls[id].Bury <= 1
                /\ calls[id].pri \subseteq {BuryPriority})
        /\ [](job[id].body = BodyMissing =>
                <>(\/ job[id].evError = 1 /\ calls[id].Bury = 1
                   \/ ~Running))

\* C6: when a reserved job's body is malformed or empty, so that it cannot
\* be decoded into a Task, the failure is surfaced as an Error outcome event
\* for that task and, while consumer and pool run, the broker job is buried;
\* the consumer loop keeps running.
C6_DecodeFailureBuried ==
    \A id \in JobIds :
        /\ [](job[id].logged \in {"EmptyPayload", "InvalidPayload"} =>
                job[id].evError >= 1 /\ cpc # "crashed")
        /\ [](job[id].logged \in {"EmptyPayload", "InvalidPayload"} =>
                <>(calls[id].Bury >= 1 \/ ~Running))

\* the body Reserve returned is the nil or the zero-length slice
EmptyBody(id) == job[id].body \in {BodyNil, BodyEmpty}

\* the task of job id is somewhere in the pool or on its way to it
InPool(id) ==
    \/ ctask.Id = id
    \/ \E i \in 1..Len(taskQueue) : taskQueue[i].Id = id
    \/ \E r \in Routines : rtask[r].Id = id

\* C7: when Reserve returns a non-zero id with an empty body, the task is
\* not handed to the payload intake, nothing is enqueued on the pool, the
\* consumer issues no Delete, Bury, Touch or Release call for that id, and
\* the loop goes on with its iteration.
C7_EmptyBodyLeftAlone ==
    /\ [](\A id \in JobIds : EmptyBody(id) =>
            /\ job[id].logged # ""
            /\ ~job[id].handed /\ ~job[id].accepted /\ ~InPool(id)
            /\ job[id].dequeued = 0
            /\ calls[id] = NoCalls)
    /\ [][\A id \in JobIds : ~EmptyBody(id) /\ EmptyBody(id)' =>
            /\ cpc = "reserve" /\ cpc' = "select"
            /\ taskQueue' = taskQueue
            /\ calls' = calls]_vars

\* both kinds of empty body were reserved, and the loop went on to hand a
\* later job to the pool
C7_Witness ==
    \E i, j, k \in JobIds :
        /\ job[i].body = BodyNil /\ job[j].body = BodyEmpty
        /\ i < k /\ j < k /\ job[k].accepted
        /\ calls[k].Delete = 1

\* C8: with two or more routines a later task's terminal event may reach the
\* consumer before an earlier task's, and under every interleaving each
\* broker acknowledgment carries the id of the task whose handler produced
\* the event: job id gets no more Delete, Bury and Touch calls than Success,
\* Error and Heartbeat events were produced for id, and none before its own
\* task was dispatched.
C8_NoCrossWiring ==
    \A id \in JobIds :
        /\ calls[id].Delete <= job[id].evSuccess
        /\ calls[id].Bury <= job[id].evError
        /\ calls[id].Touch <= job[id].evHeartbeat
        /\ calls[id].Release = 0
        /\ job[id].dequeued = 0 => calls[id] = NoCalls

\* B, submitted after A, is already deleted while A's handler still runs
C8_Witness ==
    /\ config.Concurrency >= 2
    /\ \E a, b \in JobIds :
         /\ a < b
         /\ job[a].invoked = 1 /\ job[a].result = "none"
         /\ calls[a] = NoCalls
         /\ job[b].result = "ok" /\ calls[b].Delete = 1

\* C9: the submission queue holds at most Concurrency tasks that are not yet
\* dequeued; a submission made while fewer than Concurrency tasks are queued
\* completes without blocking, and one made while Concurrency tasks are
\* queued blocks until a routine has dequeued one.
C9_QueueBounded ==
    /\ [](Len(taskQueue) <= config.Concurrency)
    /\ [](cpc = "handlePayload" /\ Len(taskQueue) < config.Concurrency
            => ENABLED Submit)
    /\ [][\A id \in JobIds : ~job[id].handed /\ job[id].handed' =>
            IF Len(taskQueue) < config.Concurrency
              THEN job[id].accepted' /\ cpc' = "select"
              ELSE ~job[id].accepted' /\ cpc' = "handlePayload"]_vars
    /\ [][\A id \in JobIds : ~job[id].accepted /\ job[id].accepted' =>
            /\ Len(taskQueue) < config.Concurrency
            /\ Len(taskQueue') = Len(taskQueue) + 1
            /\ taskQueue'[Len(taskQueue')].Id = id]_vars
    /\ [][cpc = "handlePayload" /\ Len(taskQueue) = config.Concurrency =>
            cpc' = "handlePayload" /\ ctask' = ctask]_vars

\* no routine has reached its select yet: the queue is full with the first
\* Concurrency jobs and the consumer is blocked in HandlePayload with the next
C9_Witness ==
    /\ \A r \in Active : rpc[r] = "spawned"
    /\ Len(taskQueue) = config.Concurrency
    /\ cpc = "handlePayload"
    /\ ctask.Id = config.Concurrency + 1

\* the consumer has called HandlePayload for job id and the queue has not
\* taken the task yet
Unaccepted(id) == job[id].handed /\ ~job[id].accepted

\* C10: backpressure: once the consumer has decoded a task and called
\* HandlePayload, the same task is retried until it is enqueued; it is never
\* dropped or replaced, and until the queue has accepted it the consumer
\* makes no further Reserve call and processes no outcome event.
C10_Backpressure ==
    /\ [](\A id \in JobIds : Unaccepted(id) =>
            cpc = "handlePayload" /\ ctask.Id = id /\ reserved = id)
    /\ [][\A id \in JobIds : Unaccepted(id) =>
            /\ reserved' = reserved
            /\ calls' = calls
            /\ Len(taskEventChannel') >= Len(taskEventChannel)
            /\ \/ Unaccepted(id)' /\ ctask' = ctask
               \/ /\ job[id].accepted'
                  /\ taskQueue' = Append(taskQueue, ctask)
                  /\ cpc' = "select"]_vars

\* the consumer is held in HandlePayload while an outcome event waits for
\* it and a routine is blocked behind that event
C10_Witness ==
    /\ cpc = "handlePayload"
    /\ Unaccepted(ctask.Id)
    /\ taskEventChannel # <<>>
    /\ \E r \in Routines : rpc[r] = "send"

\* C11: a routine's send of an outcome event never blocks behind that same
\* routine's own previous event: no routine is blocked writing an event while
\* an event of the same task, which only it can have written, is still in the
\* channel.
C11_NoSelfBlocking ==
    \A r \in Routines :
        rpc[r] = "send" =>
            \A i \in 1..Len(taskEventChannel) :
                taskEventChannel[i].Task.Id # rev[r].Task.Id

\* the consumer is held in HandlePayload by the full queue and every routine
\* of the pool is held in its write to the full event channel: no step of
\* the consumer, of a routine or of the connector is possible any more
Deadlocked ==
    /\ cpc = "handlePayload"
    /\ Len(taskQueue) >= TaskQueueCap
    /\ Len(taskEventChannel) >= EventChannelCap
    /\ \A r \in Active : rpc[r] = "send"

\* C12: while the consumer runs, a routine blocked writing an outcome event
\* to the full one-slot channel is eventually unblocked by the consumer loop
\* draining the pending event: no state is reachable in which the consumer
\* waits for ever in HandlePayload on a full queue while every routine waits
\* for ever on the event channel.
C12_NoDeadlock == Running => ~Deadlocked

\* the consumer loop moves as handleConsume does: from Reserve (and the
\* handoff inside it) to the select, from the select back to Reserve or out of
\* the loop, and an event is taken only in the select, one per iteration
LoopAlternates ==
    /\ Receives => cpc = "select" /\ cpc' = "reserve"
    /\ cpc = "reserve" /\ cpc' # cpc => cpc' \in {"select", "handlePayload"}
    /\ cpc = "handlePayload" /\ cpc' # cpc => cpc' = "select"
    /\ cpc = "select" /\ cpc' # cpc =>
         cpc' \in {"reserve", "ackQuit", "crashed"}

\* C13 as stated: the consumer loop strictly alternates one Reserve step and
\* one multiplex step, processes at most one outcome event per iteration,
\* and between any two outcome events it acknowledges to the broker there is
\* exactly one Reserve call.
C13_ExactlyOneReserve ==
    [][ /\ LoopAlternates
        /\ calls' # calls /\ Acked => reservesSinceAck = 1 ]_vars

\* C13 as amended: the loop alternates in the same way, and between any two
\* outcome events it acknowledges to the broker there is at least one
\* Reserve call (more than one when an iteration's select ends on the
\* heartbeat timer or takes a Progress event).
C13_AtLeastOneReserve ==
    [][ /\ LoopAlternates
        /\ calls' # calls /\ Acked => reservesSinceAck >= 1 ]_vars

\* after an acknowledgment and two Reserve calls the loop is in its select
\* with the next event to acknowledge at the head of the channel
C13_Witness ==
    /\ Acked
    /\ reservesSinceAck = 2
    /\ cpc = "select"
    /\ taskEventChannel # <<>>
    /\ AckFor(Head(taskEventChannel)).op # "none"

\* Cli.Start is inside w.StopWorker()
InStopWorker == mpc \in {"sw_signal", "sw_close", "sw_wait"}

\* C14: after StartWorker, a call to StopWorker eventually returns to its
\* caller whether or not all routines drained, even if a handler never
\* returns: the caller stays inside StopWorker until it returns, and it
\* does return.
C14_StopWorkerReturns ==
    /\ [][InStopWorker => InStopWorker' \/ mpc' = "returned"]_vars
    /\ [](InStopWorker => <>(mpc = "returned"))

\* routine r is inside handleTask: in the handler or writing an event
InHandler(r) == rpc[r] \in {"handle", "send"}

StopConsumerReturned == InStopWorker \/ mpc = "returned"

\* the order of StopConsumer's steps
StopConsumerOrder ==
    /\ mpc = "sc_signal" => mpc' \in {"sc_signal", "sc_close"}
    /\ mpc = "sc_close" => mpc' \in {"sc_close", "sc_wait", "crashed"}
    /\ mpc = "sc_wait" => mpc' \in {"sc_wait", "sc_closeConn", "crashed"}
    /\ mpc = "sc_closeConn" =>
         mpc' \in {"sc_closeConn", "sc_closed", "crashed"}
    /\ mpc = "sc_closed" => mpc' \in {"sc_closed", "sw_signal", "crashed"}
    /\ taskEventClosed' # taskEventClosed =>
         mpc = "sc_close" /\ cpc = "ackQuit"
    /\ brokerClosed' # brokerClosed =>
         /\ mpc = "sc_closeConn" /\ cpc = "done" /\ taskEventClosed
         /\ brokerClosed' = 1
         /\ mpc' = "sc_closed"

\* C16: StopConsumer signals the loop, closes the outcome-event channel,
\* waits for the loop's exit acknowledgment and closes the broker connection,
\* in that order; Close is called exactly once, only after the loop has
\* acknowledged its exit; no Reserve, Delete, Bury or Touch call is issued
\* after Close; and StopConsumer returns whether or not Close returned an
\* error.
C16_StopConsumerOrder ==
    /\ [](brokerClosed <= 1)
    /\ [](brokerClosed = 1 => cpc \in {"done", "crashed"})
    /\ [](StopConsumerReturned => brokerClosed = 1 /\ cpc = "done")
    /\ [](mpc = "sc_closed" => ENABLED StopConsumerReturn)
    /\ [][StopConsumerOrder]_vars
    /\ [][brokerClosed >= 1 =>
            /\ calls' = calls
            /\ reserved' = reserved
            /\ reservesSinceAck' = reservesSinceAck
            /\ cpc' \in {"done", "crashed"}]_vars

\* Close, called after the loop's exit, has returned an error to
\* StopConsumer, the loop having acknowledged events before it was told to
\* stop
C16_Witness ==
    /\ mpc = "sc_closed"
    /\ brokerClosed = 1
    /\ closeErr
    /\ cpc = "done"
    /\ Acked

\* the consumer loop was never spawned: no Reserve call, no job, no handoff
NoLoop ==
    /\ cpc = "idle"
    /\ reserved = 0 /\ reservesSinceAck = 0
    /\ \A id \in JobIds : job[id] = NewJob /\ calls[id] = NoCalls

\* C17: StartConsumer with no broker handler returns the missing-handler
\* error, and with a broker handler but no payload intake handler the
\* missing-payload-handler error; in both cases no loop is spawned and no
\* Reserve call is ever made.  With both configured it returns nil with the
\* loop spawned and not waited for.
C17_StartConsumerChecks ==
    /\ [](~config.handler =>
            /\ mpc \in {"start", "startConsumer", "errMissingHandler"}
            /\ NoLoop)
    /\ [](config.handler /\ ~config.taskPayloadHandler =>
            /\ mpc \in {"start", "startConsumer", "errMissingPayloadHandler"}
            /\ NoLoop)
    /\ [](config.handler /\ config.taskPayloadHandler =>
            mpc \notin {"errMissingHandler", "errMissingPayloadHandler"})
    /\ [][mpc = "startConsumer" /\ mpc' # mpc =>
            mpc' = IF ~config.handler THEN "errMissingHandler"
                   ELSE IF ~config.taskPayloadHandler
                     THEN "errMissingPayloadHandler"
                   ELSE "waitSignal"]_vars
    /\ [][mpc = "startConsumer" /\ mpc' = "waitSignal" =>
            cpc = "idle" /\ cpc' = "reserve" /\ reserved' = 0]_vars

\* StartConsumer has returned the missing-payload-handler error while the
\* pool, started before it, runs
C17_Witness ==
    /\ mpc = "errMissingPayloadHandler"
    /\ config.handler /\ ~config.taskPayloadHandler
    /\ \A r \in Active : rpc[r] = "running"

\* the Reserve call of the current iteration has failed
ReserveFailed == reserveOutcome.err # ""

\* C18: when Reserve fails, with a timeout or any other error, the consumer
\* loop does not end, hands nothing to the payload intake and issues no
\* acknowledgment for that reservation; it goes on to the multiplex step and
\* from there to the next Reserve.  The reserve-timeout signal is emitted
\* for timeout failures and for no other failure.
C18_ReserveFailureContinues ==
    /\ [](reserveOutcome.OnReserveTimeout <=> reserveOutcome.err = ErrTimeout)
    /\ [](ReserveFailed => cpc = "select")
    /\ [](ReserveFailed /\ mpc # "sc_signal" =>
            ENABLED TakeEvent \/ ENABLED ConsumerHeartbeat)
    /\ [][~ReserveFailed /\ ReserveFailed' =>
            /\ cpc = "reserve"
            /\ UNCHANGED <<ctask, reserved, job, taskQueue, calls>>]_vars
    /\ [][ReserveFailed /\ cpc' # cpc =>
            cpc' \in {"reserve", "ackQuit", "crashed"}]_vars
    /\ [][ReserveFailed /\ cpc' = "ackQuit" => mpc = "sc_signal"]_vars

\* a third Reserve call since the last acknowledgment has timed out and the
\* signal was emitted; the loop is in its select
C18_Witness ==
    /\ reserveOutcome = [err |-> ErrTimeout, OnReserveTimeout |-> TRUE]
    /\ Acked
    /\ reservesSinceAck = 2
    /\ cpc = "select"
    /\ mpc = "waitSignal"

\* ------------------------------------------------------------ the registry
\* what the RegisterTask calls made so far say: the names registered, and
\* the factory of the last call made with a name
Registered(name) ==
    \E i \in DOMAIN registrations : registrations[i].name = name
LastFactory(name) ==
    LET last == CHOOSE i \in DOMAIN registrations :
                    /\ registrations[i].name = name
                    /\ \A j \in DOMAIN registrations :
                          registrations[j].name = name => j <= i
    IN registrations[last].factory

\* C19: GetRegisteredTaskHandler for a name registered so far returns no
\* error and a handler that one invocation of the name's factory has just
\* constructed, an instance no earlier call returned; for a name never
\* registered it returns the unknown-task-type error and no handler, and
\* constructs nothing
C19_ResolveConstructs ==
    /\ [](resolved.handler.instance <= created)
    /\ [][resolved' # resolved \/ created' # created =>
            IF Registered(resolved'.name)
              THEN /\ resolved'.err = ""
                   /\ created' = created + 1
                   /\ resolved'.handler.instance = created'
                   /\ resolved'.handler.instance > resolved.handler.instance
                   /\ resolved'.handler.factory = LastFactory(resolved'.name)
              ELSE /\ resolved'.err = "UnknownTaskType"
                   /\ resolved'.handler = NoHandler
                   /\ created' = created]_vars

\* the second handler made for a name registered twice, while the other
\* name has no entry
C19_Witness ==
    /\ created = 2
    /\ resolved = [name |-> "echo", err |-> "",
                   handler |-> [factory |-> 2, instance |-> 2]]
    /\ registrations = <<[name |-> "echo", factory |-> 1],
                         [name |-> "echo", factory |-> 2]>>
    /\ ~Registered("missing")

\* C20: after any sequence of RegisterTask calls GetRegisteredTasks lists
\* exactly the names registered so far, each of them once, and a name
\* registered again has one entry, holding the factory of the last call
C20_ListMatchesRegistrations ==
    LET list == GetRegisteredTasks IN
    /\ {list[i] : i \in DOMAIN list} = {n \in TaskNames : Registered(n)}
    /\ \A i, j \in DOMAIN list : list[i] = list[j] => i = j
    /\ DOMAIN list = 1..Cardinality({n \in TaskNames : Registered(n)})
    /\ \A n \in TaskNames : Registered(n) => registry[n] = LastFactory(n)

\* two names listed after three calls, the first name registered twice
\* with different factories
C20_Witness ==
    /\ Len(registrations) = 3
    /\ registrations[1].name = registrations[3].name
    /\ registrations[1].factory # registrations[3].factory
    /\ registrations[2].name # registrations[1].name
    /\ Cardinality(DOMAIN GetRegisteredTasks) = 2
    /\ registry[registrations[1].name] = registrations[3].factory

\* -------------------------------------------------------------- the pool
\* C21: tasks of the one submitter, the consumer loop, are accepted in the
\* order of their ids, and routines dequeue them in the order they were
\* accepted: no task is dequeued while a task accepted before it has not
\* been dequeued.  Nothing orders their completion.
C21_Fifo ==
    /\ [](\A a, b \in JobIds :
            a < b /\ job[a].accepted /\ job[b].dequeued > 0 =>
                job[a].dequeued > 0)
    /\ [][\A b \in JobIds :
            ~job[b].accepted /\ job'[b].accepted =>
                \A a \in JobIds : a > b => ~job[a].accepted]_vars
    /\ [][\A b \in JobIds :
            job'[b].dequeued > job[b].dequeued =>
                /\ job[b].accepted
                /\ \A a \in JobIds :
                      job[a].accepted /\ job[a].dequeued = 0 => b <= a]_vars

\* the task accepted second has its terminal event while the task accepted
\* first, dequeued before it, is still inside its handler
C21_Witness ==
    /\ config.Concurrency = 2
    /\ job[1].accepted /\ job[2].accepted
    /\ \E r \in Routines : rpc[r] = "handle" /\ rtask[r].Id = 1
    /\ Terminals(1) = 0
    /\ Terminals(2) = 1

\* C22: a routine takes its thread id once, when it starts, and keeps it;
\* the ids held by the routines of the pool are pairwise distinct and lie in
\* 1..Concurrency, and once every routine has started they are exactly
\* 1..Concurrency, whenever each routine happens to start.
C22_ThreadIds ==
    /\ [](\A r \in Routines :
            /\ rid[r] # 0 => r \in Active /\ rid[r] \in 1..config.Concurrency
            /\ rpc[r] \in {"running", "handle", "send", "terminated"} =>
                 rid[r] # 0
            /\ rpc[r] \in {"none", "spawned"} => rid[r] = 0
            /\ \A q \in Routines : rid[r] # 0 /\ rid[r] = rid[q] => r = q)
    /\ []((\A r \in Active : rid[r] # 0) =>
            {rid[r] : r \in Active} = 1..config.Concurrency)
    /\ [][\A r \in Routines :
            /\ rid[r] # 0 => rid'[r] = rid[r]
            /\ rid'[r] # rid[r] =>
                 rpc[r] = "spawned" /\ rpc'[r] = "running"]_vars

\* both routines of a pool of two hold their ids, 1 and 2, and each is
\* executing a task, the first one having sent a Heartbeat already
C22_Witness ==
    /\ config.Concurrency = 2
    /\ rid = [r \in Routines |-> IF r \in Active THEN r ELSE 0]
    /\ rpc[1] = "handle" /\ rtask[1].Id = 1
    /\ rpc[2] = "handle" /\ rtask[2].Id = 2
    /\ job[1].evHeartbeat = 1

\* what the pool signals for a task whose handler returns nil
SignalsOfSuccess == <<"OnPreTask", "Handle", "OnPostTask", "Success">>

\* C23: for every task a routine has taken, the pool's signals come in one
\* of these orders: pre-execution signal, handler, then on success the
\* post-execution signal followed by the Success event, or on failure the
\* Error event and no post-execution signal; when no handler is registered
\* for the name, the Error event alone, with neither lifecycle signal.
C23_SignalOrder ==
    \A id \in JobIds :
        /\ job[id].dequeued = 0 => job[id].signals = <<>>
        /\ job[id].dequeued > 0 /\ job[id].result = "none" =>
              job[id].signals = <<"OnPreTask", "Handle">>
        /\ job[id].result = "ok" =>
              job[id].signals = SignalsOfSuccess
        /\ job[id].result = "err" =>
              job[id].signals = <<"OnPreTask", "Handle", "Error">>
        /\ job[id].result = "unknown" => job[id].signals = <<"Error">>
        /\ job[id].dequeued > 0 =>
              (job[id].result = "unknown" <=>
                  ~Registered(Unmarshal(job[id].body).Name))
        /\ job[id].evSuccess = 1 <=> job[id].result = "ok"
        /\ job[id].evError = 1 <=> job[id].result \in {"err", "unknown"}

\* one task of each kind has gone through the pool: one handler succeeded,
\* one failed, one name had no handler
C23_Witness ==
    \E a, b, c \in JobIds :
        /\ job[a].signals = SignalsOfSuccess
        /\ job[b].signals = <<"OnPreTask", "Handle", "Error">>
        /\ job[c].signals = <<"Error">>

\* routine r is inside handleTask
Executing(r) == rpc[r] \in {"handle", "send"}

\* C24: a routine moves from Running to Executing only by taking a task
\* from the queue and from Executing back to Running; from Running to
\* Terminated only by taking a stop token or by reading the closed, empty
\* queue; an idle Running routine can time out, and then it emits the
\* thread heartbeat with its own id and stays Running; a Terminated routine
\* stays Terminated and holds no task.
C24_RoutineStates ==
    /\ [](\A r \in Active :
            /\ rpc[r] = "terminated" => rtask[r] = NoTask /\ rev[r] = NoEvent
            /\ Executing(r) <=> rtask[r] # NoTask
            /\ (rpc[r] = "running" /\ taskQueue = <<>> /\ taskQueueQuit = 0
                 /\ ~taskQueueClosed) => ENABLED ThreadHeartbeat(r))
    /\ [][\A r \in Active :
            /\ rpc[r] = "spawned" =>
                 rpc'[r] \in {"spawned", "running", "crashed"}
            /\ rpc[r] = "running" /\ Executing(r)' =>
                 /\ taskQueue # <<>>
                 /\ rtask'[r] = Head(taskQueue)
                 /\ taskQueue' = Tail(taskQueue)
            /\ rpc[r] = "running" /\ rpc'[r] = "terminated" =>
                 \/ taskQueueQuit > 0 /\ taskQueueQuit' = taskQueueQuit - 1
                 \/ taskQueueClosed /\ taskQueue = <<>>
            /\ Executing(r) =>
                 Executing(r)' \/ rpc'[r] \in {"running", "crashed"}
            /\ rpc[r] = "terminated" =>
                 rpc'[r] \in {"terminated", "crashed"}]_vars
    /\ [][threadHeartbeat' # 0 =>
            /\ \E r \in Active :
                  /\ rid[r] = threadHeartbeat'
                  /\ rpc[r] = "running"
            /\ taskQueue = <<>> /\ taskQueueQuit = 0
            /\ rpc' = rpc
            /\ UNCHANGED <<job, taskQueue, taskQueueQuit, rtask,
                           taskEventChannel, calls>>]_vars

\* the routine with thread id 2 has just timed out idle and emitted its
\* heartbeat while the routine with id 1 is executing a task
C24_Witness ==
    /\ threadHeartbeat = 2
    /\ \E r, q \in Active :
         /\ rid[r] = 2 /\ rpc[r] = "running"
         /\ rid[q] = 1 /\ rpc[q] = "handle"

\* C25: StopWorker returns only on the supervisor's acknowledgment, which
\* the supervisor gives after it has put one stop token per routine on
\* taskQueueQuit and WaitTimeout has returned; the queue is closed by then,
\* and when WaitTimeout returned no timeout every routine of the pool has
\* terminated.
C25_StopWorkerWaits ==
    /\ [](mpc = "returned" =>
            /\ spc = "ended"
            /\ taskQueueClosed
            /\ (~waitErr => \A r \in Active : rpc[r] = "terminated"))
    /\ [][mpc' = "returned" /\ mpc # "returned" =>
            mpc = "sw_wait" /\ spc = "ackQuit" /\ spc' = "ended"]_vars
    /\ [][spc' # spc =>
            \/ spc = "none" /\ spc' = "waitQuit"
            \/ spc = "waitQuit" /\ spc' = "stopTaskThreads"
            \/ /\ spc = "stopTaskThreads" /\ spc' = "waitTimeout"
               /\ taskQueueQuit' = taskQueueQuit + config.Concurrency
            \/ /\ spc = "waitTimeout" /\ spc' = "ackQuit"
               /\ (~waitErr' => \A r \in Active : rpc[r] = "terminated")
            \/ spc = "ackQuit" /\ spc' = "ended"
            \/ spc' = "crashed"]_vars
    /\ [][waitErr' # waitErr => spc = "waitTimeout"]_vars

\* StopWorker has returned from a pool of two whose wait did not time out:
\* both routines have terminated, one of them after running a handler
C25_Witness ==
    /\ mpc = "returned"
    /\ ~waitErr
    /\ config.Concurrency = 2
    /\ \A r \in Active : rpc[r] = "terminated"
    /\ \E id \in JobIds : job[id].invoked = 1

\* ---------------------------------------------------- broker call errors
\* C26: when the Delete, Bury or Touch call made for an outcome event
\* returns an error, the call has been made once, the loop is not ended and
\* its next step is Reserve; the broker receives a further call only for a
\* further event.
C26_AckErrorContinues ==
    /\ [](ackErr => cpc = "reserve" /\ panicked = "" /\ ENABLED Reserve)
    /\ [][ackErr' =>
            /\ Receives
            /\ LET c == AckFor(Head(taskEventChannel)) IN
                 c.op \in {"Delete", "Bury", "Touch"} /\ OneCall(c.op, c.id)
            /\ cpc = "select" /\ cpc' = "reserve"]_vars
    /\ [][ackErr /\ cpc' # cpc => cpc' \in {"select", "handlePayload"}]_vars
    /\ [][calls' # calls => Receives]_vars

\* the Bury call for a task has just failed; the loop is about to reserve
\* again while another task is still inside its handler
C26_Witness ==
    /\ ackErr
    /\ cpc = "reserve"
    /\ \E a, b \in JobIds :
         /\ calls[a].Bury = 1
         /\ job[b].invoked = 1 /\ Terminals(b) = 0

\* ------------------------------------------------------- start and stop
\* C27: the consumer loop starts only once the pool has been started, and
\* StopWorker is entered only after StopConsumer has returned, when the
\* loop has ended; so when the queue is closed the loop is gone, and no task
\* is handed over or submitted to the closed queue.
C27_StartStopOrder ==
    /\ [](cpc # "idle" => spc # "none" /\ \A r \in Active : rpc[r] # "none")
    /\ [][cpc = "idle" /\ cpc' # "idle" =>
            mpc = "startConsumer" /\ spc = "waitQuit"]_vars
    /\ [](InStopWorker => cpc = "done" /\ brokerClosed = 1)
    /\ [][~InStopWorker /\ InStopWorker' => mpc = "sc_closed"]_vars
    /\ [](taskQueueClosed => cpc \in {"done", "crashed"} /\ ctask = NoTask)
    /\ [][taskQueueClosed' =>
            /\ Len(taskQueue') <= Len(taskQueue)
            /\ \A id \in JobIds :
                  /\ job'[id].handed = job[id].handed
                  /\ job'[id].accepted = job[id].accepted]_vars

\* StopWorker has closed the queue while a task accepted earlier is still
\* in it; the consumer loop has ended
C27_Witness ==
    /\ mpc = "sw_wait"
    /\ taskQueueClosed
    /\ taskQueue # <<>>
    /\ cpc = "done"
    /\ brokerClosed = 1

\* C28: a task accepted into the queue is taken from it by at most one
\* routine and its handler is called at most once, whichever routines
\* compete for it and also while the pool is being stopped; it is in the
\* queue at most once, and no longer once a routine has taken it.
C28_AtMostOnce ==
    /\ \A id \in JobIds :
          /\ job[id].dequeued <= 1
          /\ job[id].invoked <= job[id].dequeued
          /\ job[id].dequeued = 1 => job[id].accepted
          /\ \A r, q \in Routines :
                rtask[r].Id = id /\ rtask[q].Id = id => r = q
          /\ \A i, k \in DOMAIN taskQueue :
                taskQueue[i].Id = id /\ taskQueue[k].Id = id => i = k
          /\ job[id].dequeued = 1 =>
                \A i \in DOMAIN taskQueue : taskQueue[i].Id # id
    /\ \A i \in DOMAIN taskQueue : job[taskQueue[i].Id].accepted

\* the pool is being stopped: one routine is inside the handler of the task
\* it took, the other routine is free and the next task is in the queue
C28_Witness ==
    /\ mpc = "sw_wait"
    /\ config.Concurrency = 2
    /\ taskQueue # <<>>
    /\ \E r, q \in Active :
         /\ rpc[r] = "handle" /\ job[rtask[r].Id].invoked = 1
         /\ rpc[q] = "running"

\* C29: at most Concurrency routines are inside a handler at any time, and
\* the tasks inside the pool, those in the queue and those being executed,
\* never number more than twice Concurrency.
C29_BoundedParallelism ==
    LET executing == {r \in Routines : Executing(r)} IN
    /\ Cardinality(executing) <= config.Concurrency
    /\ Len(taskQueue) + Cardinality(executing) <= 2 * config.Concurrency
    /\ \A r \in Routines \ Active : rpc[r] \in {"none", "crashed"}

\* a pool of one at its limit: one task is being executed, one is queued,
\* and the consumer loop is held in the payload intake with a third
C29_Witness ==
    /\ config.Concurrency = 1
    /\ rpc[1] = "handle"
    /\ Len(taskQueue) = 1
    /\ cpc = "handlePayload"
    /\ ctask.Id = 3

\* C30: no routine writes an outcome event to the consumer's channel once
\* StopConsumer has closed it, and none is blocked in such a write when it
\* is closed: the process never dies of a send on the closed channel.
C30_NoSendOnClosed == panicked # "send on closed channel"

\* ------------------------------------------------------------- shutdown
\* C31: the outcome-event channel is closed only when the consumer loop has
\* taken the shutdown signal, and from then on the loop only acknowledges
\* and ends: it never selects again, so it never receives from the closed
\* channel and never dereferences the nil event such a receive yields.
C31_NoReceiveAfterClose ==
    /\ [](taskEventClosed => cpc \in {"ackQuit", "done", "crashed"})
    /\ [](panicked # "nil pointer dereference")
    /\ [][~taskEventClosed /\ taskEventClosed' =>
            cpc = "ackQuit" /\ mpc = "sc_close"]_vars
    /\ [][cpc = "ackQuit" => cpc' \in {"ackQuit", "done", "crashed"}]_vars
    /\ [][cpc = "done" => cpc' = "done" \/ cpc' = "crashed"]_vars
    /\ [][Receives => ~taskEventClosed /\ cpc = "select"]_vars

\* the loop has ended and the channel was closed with an event still in it,
\* which nothing will receive
C31_Witness ==
    /\ taskEventClosed
    /\ cpc = "done"
    /\ taskEventChannel # <<>>
    /\ panicked = ""

\* C32: no accepted task is dropped at pool shutdown: once every routine of
\* the pool has terminated, each task that was accepted into the submission
\* queue has been dequeued and has had its terminal outcome event.
C32_NoTaskDropped ==
    (\A r \in Active : rpc[r] = "terminated") =>
        \A id \in JobIds :
            job[id].accepted => job[id].dequeued = 1 /\ Terminals(id) = 1

\* Cli.Start is inside c.StopConsumer()
InStopConsumer ==
    mpc \in {"sc_signal", "sc_close", "sc_wait", "sc_closeConn", "sc_closed"}

\* C33: after a successful StartConsumer, a call to StopConsumer eventually
\* returns when every Reserve call returns: the loop reaches its select,
\* takes the shutdown signal, acknowledges and ends, whatever the worker
\* routines do meanwhile.
C33_StopConsumerReturns == InStopConsumer ~> StopConsumerReturned

\* C34: the consumer loop never calls Release on the broker: no job ever
\* has a Release recorded, every step in which the broker receives a call
\* for a job is one Delete, one Bury or one Touch made by the loop in its
\* select, and Close is called by StopConsumer only, after the loop's
\* acknowledgment.
C34_NoRelease ==
    /\ [](\A id \in JobIds : calls[id].Release = 0)
    /\ [][calls' # calls =>
            /\ cpc = "select"
            /\ \E id \in JobIds, op \in {"Delete", "Bury", "Touch"} :
                 OneCall(op, id)]_vars
    /\ [][brokerClosed' # brokerClosed =>
            mpc = "sc_closeConn" /\ brokerClosed' = brokerClosed + 1]_vars

\* StopConsumer has closed the connection after the loop touched and deleted
\* one job and buried another; no Release was made
C34_Witness ==
    /\ brokerClosed = 1
    /\ cpc = "done"
    /\ \E i, j \in JobIds :
         /\ calls[i].Touch = 1 /\ calls[i].Delete = 1
         /\ calls[j].Bury = 1
    /\ \A id \in JobIds : calls[id].Release = 0

\* Cli.Start has returned the configuration error of StartConsumer
StartFailed == mpc \in {"errMissingHandler", "errMissingPayloadHandler"}

\* C35: when StartConsumer returns a configuration error, Cli.Start returns
\* it without calling StopWorker: Start stays returned, the supervisor still
\* waits for the quit signal nobody sends, the task queue is open, no stop
\* token exists, and every routine of the pool is started or about to start
\* and never terminates.
C35_PoolLeftRunning ==
    /\ [](StartFailed =>
            /\ spc = "waitQuit"
            /\ ~taskQueueClosed
            /\ taskQueueQuit = 0
            /\ \A r \in Active : rpc[r] \in {"spawned", "running"}
            /\ panicked = "")
    /\ [][StartFailed => (UNCHANGED mpc)]_vars
    /\ [][mpc = "startConsumer" /\ StartFailed' =>
            UNCHANGED <<routineVars, supervisorVars, queueVars>>]_vars

\* Start has returned the missing-handler error and, after that, the second
\* of two running routines has reported its thread heartbeat
C35_Witness ==
    /\ mpc = "errMissingHandler"
    /\ config.Concurrency = 2
    /\ \A r \in Active : rpc[r] = "running"
    /\ threadHeartbeat = 2

====
